---- MODULE Spec2Model ----
(***************************************************************************)
(* CanvasLib: the Canvas wrapper class around an HTML canvas element and   *)
(* its 2D drawing context.  The repository holds two variants of the       *)
(* class: the ES-module class with private fields (src/unnamed/part_000)   *)
(* and the classic class with underscore fields (src/Canvas.js).           *)
(*                                                                         *)
(* Coordinates are kept in half pixels (the value v stands for v/2 px), so *)
(* that the 0.5 px position fix is the integer Half.  Angles are kept in   *)
(* quarter turns (the value a stands for a * pi/2).  A JavaScript value    *)
(* that may be null is kept as a sequence of length at most one: <<>> is   *)
(* null (or an omitted parameter, which the default turns into null) and   *)
(* <<v>> is the value v.                                                   *)
(***************************************************************************)
EXTENDS Integers, Sequences, FiniteSets, TLC

VARIABLES variant, options, usePositionFix, width, height,
          fontDecorations, fontSize, fontFamily,
          context, last, recent

vars == <<variant, options, usePositionFix, width, height,
          fontDecorations, fontSize, fontFamily,
          context, last, recent>>

(***************************************************************************)
(* Bounds and input sets.                                                  *)
(***************************************************************************)
MaxDecorations == 2
MaxPoints == 3

Variants == {"module", "classic"}
Decorations == {"bold", "italic"}
Families == {"serif", "Arial"}
Sizes == {12, 20}
Colors == {"red", "blue"}
CanvasSizes == {<<600, 300>>, <<200, 400>>}

Opt(S) == {<<>>} \cup {<<v>> : v \in S}

DecorationLists == UNION {[1..n -> Decorations] : n \in 0..MaxDecorations}

(***************************************************************************)
(* Units.                                                                  *)
(***************************************************************************)
Half == 1
PI == 2

Px(n) == 2 * n

(***************************************************************************)
(* Array.prototype.join(' ') and the template literal `${size}px`.         *)
(***************************************************************************)
RECURSIVE join(_)
join(a) ==
    IF Len(a) = 0 THEN ""
    ELSE IF Len(a) = 1 THEN a[1]
    ELSE a[1] \o " " \o join(Tail(a))

px(size) == ToString(size) \o "px"

(***************************************************************************)
(* The drawing context.  font, fillStyle, strokeStyle, textAlign and       *)
(* textBaseline are its attributes; path is the list of path commands      *)
(* issued since the last beginPath; log is the list of method calls the    *)
(* operation in progress has made on the context.                          *)
(***************************************************************************)
DefaultFont == "10px sans-serif"
DefaultStyle == "#000000"

Issue(c, call) == [c EXCEPT !.log = Append(@, call)]

BeginPath(c) == Issue([c EXCEPT !.path = <<>>], [op |-> "beginPath"])

AddToPath(c, cmd) == Issue([c EXCEPT !.path = Append(@, cmd)], cmd)

MoveTo(c, x, y) == AddToPath(c, [op |-> "moveTo", x |-> x, y |-> y])

LineTo(c, x, y) == AddToPath(c, [op |-> "lineTo", x |-> x, y |-> y])

Arc(c, x, y, r, a0, a1) ==
    AddToPath(c, [op |-> "arc", x |-> x, y |-> y, r |-> r, a0 |-> a0, a1 |-> a1])

ClosePath(c) == AddToPath(c, [op |-> "closePath"])

Fill(c) == Issue(c, [op |-> "fill", style |-> c.fillStyle, path |-> c.path])

Stroke(c) == Issue(c, [op |-> "stroke", style |-> c.strokeStyle, path |-> c.path])

FillRect(c, x, y, w, h) ==
    Issue(c, [op |-> "fillRect", x |-> x, y |-> y, w |-> w, h |-> h,
              style |-> c.fillStyle])

StrokeRect(c, x, y, w, h) ==
    Issue(c, [op |-> "strokeRect", x |-> x, y |-> y, w |-> w, h |-> h,
              style |-> c.strokeStyle])

ClearRect(c, x, y, w, h) ==
    Issue(c, [op |-> "clearRect", x |-> x, y |-> y, w |-> w, h |-> h])

FillText(c, text, x, y) ==
    Issue(c, [op |-> "fillText", text |-> text, x |-> x, y |-> y,
              style |-> c.fillStyle])

StrokeText(c, text, x, y) ==
    Issue(c, [op |-> "strokeText", text |-> text, x |-> x, y |-> y,
              style |-> c.strokeStyle])

SetFillStyle(c, color) == [c EXCEPT !.fillStyle = color]

SetStrokeStyle(c, color) == [c EXCEPT !.strokeStyle = color]

\* The context as an operation finds it: nothing issued yet.
Entry == [context EXCEPT !.log = <<>>]

(***************************************************************************)
(* constructor(width, height, options = {})                                *)
(***************************************************************************)
OptionValues == {"absent", "null", "true", "false"}

\* Faulty variant: an absent or null option is taken as false.
PositionFixOption_strict(o) == o = "true"

\* options.usePositionFix != null ? options.usePositionFix : true
PositionFixOption(o) == IF o \notin {"absent", "null"} THEN o = "true" ELSE TRUE

Init ==
    /\ variant \in Variants
    /\ options \in OptionValues
    /\ usePositionFix = PositionFixOption(options)
    /\ \E s \in CanvasSizes : width = s[1] /\ height = s[2]
    /\ fontDecorations = <<>>
    /\ fontSize = "10px"
    /\ fontFamily = "sans-serif"
    /\ context = [font |-> DefaultFont, fillStyle |-> DefaultStyle,
                  strokeStyle |-> DefaultStyle, textAlign |-> "left",
                  textBaseline |-> "top", path |-> <<>>, log |-> <<>>]
    /\ last = [op |-> "constructor"]
    /\ recent = [applied |-> FALSE, decorations |-> <<>>, size |-> 10,
                 family |-> "sans-serif"]

(***************************************************************************)
(* Font state.                                                             *)
(***************************************************************************)
composeFont(decorations, size, family) ==
    IF variant = "module"
    THEN join(decorations) \o " " \o size \o " " \o family
    ELSE join(decorations) \o " " \o size \o " \"" \o family \o "\""

refreshFont(c, decorations, size, family) ==
    [c EXCEPT !.font = composeFont(decorations, size, family)]

Drawing == <<width, height, usePositionFix, options, variant>>

setFontSize ==
    \E size \in Sizes :
        /\ fontSize' = px(size)
        /\ context' = refreshFont(Entry, fontDecorations, fontSize', fontFamily)
        /\ last' = [op |-> "setFontSize"]
        /\ recent' = [recent EXCEPT !.applied = TRUE, !.size = size]
        /\ UNCHANGED <<fontDecorations, fontFamily, Drawing>>

setFontFamily ==
    \E family \in Families :
        /\ fontFamily' = family
        /\ context' = refreshFont(Entry, fontDecorations, fontSize, fontFamily')
        /\ last' = [op |-> "setFontFamily"]
        /\ recent' = [recent EXCEPT !.applied = TRUE, !.family = family]
        /\ UNCHANGED <<fontDecorations, fontSize, Drawing>>

setFontDecorations ==
    \E arg \in Opt(DecorationLists) :
        LET decorations == IF arg = <<>> THEN <<>> ELSE arg[1] IN
        /\ fontDecorations' = decorations
        /\ context' = refreshFont(Entry, fontDecorations', fontSize, fontFamily)
        /\ last' = [op |-> "setFontDecorations"]
        /\ recent' = [recent EXCEPT !.applied = TRUE, !.decorations = decorations]
        /\ UNCHANGED <<fontSize, fontFamily, Drawing>>

\* Faulty variant: the size is assigned without the null test.
setFont_unguardedSize ==
    \E family \in Opt(Families), size \in Opt(Sizes),
       decorations \in Opt(DecorationLists) :
        /\ fontFamily' = IF family # <<>> THEN family[1] ELSE fontFamily
        /\ fontSize' = IF size # <<>> THEN px(size[1]) ELSE "nullpx"
        /\ fontDecorations' = IF decorations # <<>> THEN decorations[1]
                              ELSE fontDecorations
        /\ context' = refreshFont(Entry, fontDecorations', fontSize', fontFamily')
        /\ last' = [op |-> "setFont", family |-> family, size |-> size,
                    decorations |-> decorations]
        /\ recent' = [applied |-> TRUE,
                      family |-> IF family # <<>> THEN family[1] ELSE recent.family,
                      size |-> IF size # <<>> THEN size[1] ELSE recent.size,
                      decorations |-> IF decorations # <<>> THEN decorations[1]
                                      ELSE recent.decorations]
        /\ UNCHANGED Drawing

setFont ==
    \E family \in Opt(Families), size \in Opt(Sizes),
       decorations \in Opt(DecorationLists) :
        /\ fontFamily' = IF family # <<>> THEN family[1] ELSE fontFamily
        /\ fontSize' = IF size # <<>> THEN px(size[1]) ELSE fontSize
        /\ fontDecorations' = IF decorations # <<>> THEN decorations[1]
                              ELSE fontDecorations
        /\ context' = refreshFont(Entry, fontDecorations', fontSize', fontFamily')
        /\ last' = [op |-> "setFont", family |-> family, size |-> size,
                    decorations |-> decorations]
        /\ recent' = [applied |-> TRUE,
                      family |-> IF family # <<>> THEN family[1] ELSE recent.family,
                      size |-> IF size # <<>> THEN size[1] ELSE recent.size,
                      decorations |-> IF decorations # <<>> THEN decorations[1]
                                      ELSE recent.decorations]
        /\ UNCHANGED Drawing

NextFont == setFontSize \/ setFontFamily \/ setFontDecorations \/ setFont

SpecFont == Init /\ [][NextFont]_vars

(***************************************************************************)
(* Draw operations: the inputs.                                            *)
(***************************************************************************)
Points == {<<Px(0), Px(0)>>, <<Px(10), Px(4)>>}
Extents == {<<Px(10), Px(6)>>}
Radii == {Px(2)}
Texts == {"Hi"}
PolyCoords == <<Px(0), Px(0), Px(10), Px(0), Px(5), Px(8), Px(0), Px(8), Px(3), Px(3)>>

Flat(n) == [i \in 1..(2 * n) |-> PolyCoords[i]]

VertexLists == {<<>>, <<Px(5)>>} \cup {Flat(n) : n \in 1..MaxPoints}

Font == <<fontDecorations, fontSize, fontFamily, recent>>

(***************************************************************************)
(* Draw operations: the handlers, as functions of the context they find.   *)
(***************************************************************************)
Fixed(v) == IF usePositionFix THEN v + Half ELSE v

withFill(c, color) == IF color # <<>> THEN SetFillStyle(c, color[1]) ELSE c

withStroke(c, color) == IF color # <<>> THEN SetStrokeStyle(c, color[1]) ELSE c

drawLine(c, x1, y1, x2, y2, color) ==
    LET c1 == withStroke(c, color)
        c2 == BeginPath(c1)
        c3 == MoveTo(c2, Fixed(x1), Fixed(y1))
        c4 == LineTo(c3, Fixed(x2), Fixed(y2))
    IN  Stroke(c4)

\* Faulty variant: the stroke branch assigns the colour to fillStyle.
drawRect_fillStyleInStroke(c, x, y, w, h, color, isFill) ==
    IF isFill
    THEN FillRect(withFill(c, color), x, y, w, h)
    ELSE StrokeRect(withFill(c, color), Fixed(x), Fixed(y), w, h)

\* Faulty variant: the stroke branch also moves the width and the height.
drawRect_fixesExtent(c, x, y, w, h, color, isFill) ==
    IF isFill
    THEN FillRect(withFill(c, color), x, y, w, h)
    ELSE StrokeRect(withStroke(c, color), Fixed(x), Fixed(y), Fixed(w), Fixed(h))

drawRect(c, x, y, w, h, color, isFill) ==
    IF isFill
    THEN FillRect(withFill(c, color), x, y, w, h)
    ELSE StrokeRect(withStroke(c, color), Fixed(x), Fixed(y), w, h)

roundedRectPath(c, x, y, w, h, r) ==
    LET c1 == BeginPath(c)
        c2 == Arc(c1, x + r, y + r, r, PI, (PI * 3) \div 2)
        c3 == Arc(c2, x + w - r, y + r, r, (PI * 3) \div 2, 0)
        c4 == Arc(c3, x + w - r, y + h - r, r, 0, PI \div 2)
        c5 == Arc(c4, x + r, y + h - r, r, PI \div 2, PI)
    IN  ClosePath(c5)

drawRoundedRect(c, x, y, w, h, r, color, isFill) ==
    LET c1 == roundedRectPath(c, x, y, w, h, r)
        \* the stroke branch assigns x += 0.5 and y += 0.5 after the path is
        \* built; nothing reads them afterwards
        xs == Fixed(x)
        ys == Fixed(y)
    IN  IF isFill
        THEN Fill(withFill(c1, color))
        ELSE Stroke(withStroke(c1, color))

\* Faulty variant: the centre is moved by the position fix.
drawCircle_fixed(c, x, y, r, color, isFill) ==
    LET c1 == BeginPath(c)
        c2 == Arc(c1, Fixed(x), Fixed(y), r, 0, PI * 2)
        c3 == ClosePath(c2)
    IN  IF isFill
        THEN Fill(withFill(c3, color))
        ELSE Stroke(withStroke(c3, color))

drawCircle(c, x, y, r, color, isFill) ==
    LET c1 == BeginPath(c)
        c2 == Arc(c1, x, y, r, 0, PI * 2)
        c3 == ClosePath(c2)
    IN  IF isFill
        THEN Fill(withFill(c3, color))
        ELSE Stroke(withStroke(c3, color))

\* for(let i = 2; i < vertexes.length; i += 2), i counted from 0: the
\* JavaScript vertexes[i] is v[i + 1].
RECURSIVE polygonLoop(_, _, _)
polygonLoop(c, v, i) ==
    IF i < Len(v)
    THEN polygonLoop(MoveTo(c, v[i + 1], v[i + 2]), v, i + 2)
    ELSE c

polygonPath(c, v) ==
    LET c1 == BeginPath(c)
        c2 == LineTo(c1, v[1], v[2])
        c3 == polygonLoop(c2, v, 2)
    IN  ClosePath(c3)

\* Faulty variant: the colour is assigned before the length test.
drawPolygon_colourFirst(c, vertexes, color, isFill) ==
    LET c0 == IF isFill THEN withFill(c, color) ELSE withStroke(c, color)
    IN  IF vertexes = <<>> \/ Len(vertexes[1]) < 2
        THEN c0
        ELSE LET c1 == polygonPath(c0, vertexes[1])
             IN  IF isFill THEN Fill(c1) ELSE Stroke(c1)

drawPolygon(c, vertexes, color, isFill) ==
    IF vertexes = <<>> \/ Len(vertexes[1]) < 2
    THEN c
    ELSE LET c1 == polygonPath(c, vertexes[1])
         IN  IF isFill
             THEN Fill(withFill(c1, color))
             ELSE Stroke(withStroke(c1, color))

drawText(c, x, y, text, color, isFill) ==
    LET xf == Fixed(x)
        yf == Fixed(y)
    IN  IF isFill
        THEN FillText(withFill(c, color), text, xf, yf)
        ELSE StrokeText(withStroke(c, color), text, xf, yf)

drawFill(c, color) == Fill(withFill(c, color))

drawStroke(c, color) == Stroke(withStroke(c, color))

clearModule(c, color) ==
    LET c1 == ClearRect(c, 0, 0, width, height)
    IN  IF color # <<>> /\ color # <<"clear">>
        THEN FillRect(SetFillStyle(c1, color[1]), 0, 0, width, height)
        ELSE c1

clearClassic(c, color) == FillRect(withFill(c, color), 0, 0, width, height)

clear(c, color) ==
    IF variant = "module" THEN clearModule(c, color) ELSE clearClassic(c, color)

(***************************************************************************)
(* Draw operations: the calls.                                             *)
(***************************************************************************)
DrawLine ==
    \E p1 \in Points, p2 \in Points, color \in Opt(Colors) :
        /\ context' = drawLine(Entry, p1[1], p1[2], p2[1], p2[2], color)
        /\ last' = [op |-> "drawLine", x1 |-> p1[1], y1 |-> p1[2],
                    x2 |-> p2[1], y2 |-> p2[2], color |-> color]
        /\ UNCHANGED <<Font, Drawing>>

DrawRect ==
    \E p \in Points, e \in Extents, color \in Opt(Colors), isFill \in BOOLEAN :
        /\ context' = drawRect(Entry, p[1], p[2], e[1], e[2], color, isFill)
        /\ last' = [op |-> "drawRect", x |-> p[1], y |-> p[2], width |-> e[1],
                    height |-> e[2], color |-> color, isFill |-> isFill]
        /\ UNCHANGED <<Font, Drawing>>

DrawRoundedRect ==
    \E p \in Points, e \in Extents, r \in Radii, color \in Opt(Colors),
       isFill \in BOOLEAN :
        /\ context' = drawRoundedRect(Entry, p[1], p[2], e[1], e[2], r, color, isFill)
        /\ last' = [op |-> "drawRoundedRect", x |-> p[1], y |-> p[2],
                    width |-> e[1], height |-> e[2], r |-> r,
                    color |-> color, isFill |-> isFill]
        /\ UNCHANGED <<Font, Drawing>>

DrawCircle ==
    \E p \in Points, r \in Radii, color \in Opt(Colors), isFill \in BOOLEAN :
        /\ context' = drawCircle(Entry, p[1], p[2], r, color, isFill)
        /\ last' = [op |-> "drawCircle", x |-> p[1], y |-> p[2], r |-> r,
                    color |-> color, isFill |-> isFill]
        /\ UNCHANGED <<Font, Drawing>>

\* Only the module variant has drawPolygon and setSize.
DrawPolygon ==
    /\ variant = "module"
    /\ \E vertexes \in Opt(VertexLists), color \in Opt(Colors), isFill \in BOOLEAN :
        /\ context' = drawPolygon(Entry, vertexes, color, isFill)
        /\ last' = [op |-> "drawPolygon", vertexes |-> vertexes,
                    color |-> color, isFill |-> isFill]
        /\ UNCHANGED <<Font, Drawing>>

DrawText ==
    \E p \in Points, text \in Texts, color \in Opt(Colors), isFill \in BOOLEAN :
        /\ context' = drawText(Entry, p[1], p[2], text, color, isFill)
        /\ last' = [op |-> "drawText", x |-> p[1], y |-> p[2], text |-> text,
                    color |-> color, isFill |-> isFill]
        /\ UNCHANGED <<Font, Drawing>>

DrawFill ==
    \E color \in Opt(Colors) :
        /\ context' = drawFill(Entry, color)
        /\ last' = [op |-> "drawFill", color |-> color]
        /\ UNCHANGED <<Font, Drawing>>

DrawStroke ==
    \E color \in Opt(Colors) :
        /\ context' = drawStroke(Entry, color)
        /\ last' = [op |-> "drawStroke", color |-> color]
        /\ UNCHANGED <<Font, Drawing>>

Clear ==
    \E color \in Opt(Colors \cup {"clear"}) :
        /\ context' = clear(Entry, color)
        /\ last' = [op |-> "clear", color |-> color]
        /\ UNCHANGED <<Font, Drawing>>

SetSize ==
    /\ variant = "module"
    /\ \E s \in CanvasSizes :
        /\ width' = s[1]
        /\ height' = s[2]
        /\ context' = Entry
        /\ last' = [op |-> "setSize"]
        /\ UNCHANGED <<Font, usePositionFix, options, variant>>

NextDraw ==
    \/ DrawLine \/ DrawRect \/ DrawRoundedRect \/ DrawCircle \/ DrawPolygon
    \/ DrawText \/ DrawFill \/ DrawStroke \/ Clear \/ SetSize

SpecDraw == Init /\ [][NextDraw]_vars

Next == NextFont \/ NextDraw

Spec == Init /\ [][Next]_vars

(***************************************************************************)
(* Reading the state: the call that was made last, what it left on the     *)
(* context, and the straight edges a list of path commands stands for.     *)
(***************************************************************************)
DrawOps == {"drawLine", "drawRect", "drawRoundedRect", "drawCircle",
            "drawPolygon", "drawText", "drawFill", "drawStroke"}

ShapeOps == DrawOps \ {"drawFill", "drawStroke"}

FlaggedOps == ShapeOps \ {"drawLine"}

Mode(call) ==
    IF call.op \in {"drawLine", "drawStroke"} THEN "stroke"
    ELSE IF call.op = "drawFill" THEN "fill"
    ELSE IF call.isFill THEN "fill" ELSE "stroke"

\* The colour a draw call painted with; for a call that painted nothing,
\* the colour its mode would have painted with.
Rendered(call, c) ==
    IF c.log # <<>> THEN c.log[Len(c.log)].style
    ELSE IF Mode(call) = "fill" THEN c.fillStyle ELSE c.strokeStyle

Shift == IF options = "false" THEN 0 ELSE Half

RECURSIVE SpaceJoined(_)
SpaceJoined(a) ==
    IF a = <<>> THEN ""
    ELSE IF Len(a) = 1 THEN a[1]
    ELSE SpaceJoined(SubSeq(a, 1, Len(a) - 1)) \o " " \o a[Len(a)]

PlainFont ==
    SpaceJoined(recent.decorations) \o " " \o ToString(recent.size) \o "px "
        \o recent.family

QuotedFont ==
    SpaceJoined(recent.decorations) \o " " \o ToString(recent.size) \o "px \""
        \o recent.family \o "\""

\* The straight edges of a path made of moveTo, lineTo and closePath: lineTo
\* on a path with no current point only sets it; closePath joins the current
\* point to the start of its subpath when they differ.
RECURSIVE EdgesFrom(_, _, _, _)
EdgesFrom(path, start, cur, acc) ==
    IF path = <<>> THEN acc
    ELSE LET cmd == Head(path)
             pt == <<cmd.x, cmd.y>>
         IN  IF cmd.op = "moveTo"
             THEN EdgesFrom(Tail(path), <<pt>>, <<pt>>, acc)
             ELSE IF cmd.op = "lineTo"
             THEN IF cur = <<>>
                  THEN EdgesFrom(Tail(path), <<pt>>, <<pt>>, acc)
                  ELSE EdgesFrom(Tail(path), start, <<pt>>,
                                 Append(acc, <<cur[1], pt>>))
             ELSE IF cmd.op = "closePath" /\ cur # <<>> /\ cur # start
             THEN EdgesFrom(Tail(path), start, start,
                            Append(acc, <<cur[1], start[1]>>))
             ELSE EdgesFrom(Tail(path), start, cur, acc)

StraightEdges(path) == EdgesFrom(path, <<>>, <<>>, <<>>)

PointsOf(v) == [k \in 1..(Len(v) \div 2) |-> <<v[2 * k - 1], v[2 * k]>>]

ClosedOutline(v) ==
    LET pts == PointsOf(v)
        n == Len(pts)
    IN  IF n < 2 THEN <<>>
        ELSE [k \in 1..n |-> <<pts[k], pts[IF k = n THEN 1 ELSE k + 1]>>]

\* The coordinates of the moveTo and lineTo commands of a path that ends
\* with closePath, in the order issued.
CoordsOf(path) ==
    [k \in 1..(2 * (Len(path) - 1)) |->
        IF k % 2 = 1 THEN path[(k + 1) \div 2].x ELSE path[k \div 2].y]

RoundedOutline(x, y, w, h, r) ==
    << [op |-> "arc", x |-> x + r, y |-> y + r, r |-> r, a0 |-> 2, a1 |-> 3],
       [op |-> "arc", x |-> x + w - r, y |-> y + r, r |-> r, a0 |-> 3, a1 |-> 0],
       [op |-> "arc", x |-> x + w - r, y |-> y + h - r, r |-> r, a0 |-> 0, a1 |-> 1],
       [op |-> "arc", x |-> x + r, y |-> y + h - r, r |-> r, a0 |-> 1, a1 |-> 2],
       [op |-> "closePath"] >>

TooShort(vertexes) == vertexes = <<>> \/ Len(vertexes[1]) < 2

(***************************************************************************)
(* C1.  Once one of setFontFamily, setFontSize, setFontDecorations and     *)
(* setFont has run, the font of the context is the decorations joined by   *)
(* spaces, a space, the size with "px", a space and the family, each the   *)
(* value set last (a null parameter of setFont sets nothing).              *)
(***************************************************************************)
\* C1 as stated: the family appears bare in both variants.
FontIsPlainTriple == recent.applied => context.font = PlainFont

\* C1 amended: the classic variant wraps the family in double quotes.
FontComposedPerVariant ==
    recent.applied =>
        context.font = IF variant = "module" THEN PlainFont ELSE QuotedFont

FontPartialUpdateSeen ==
    /\ last.op = "setFont"
    /\ last.family = <<>> /\ last.size = <<20>> /\ last.decorations = <<>>
    /\ recent.family = "Arial"
    /\ recent.decorations = <<"bold", "italic">>
    /\ context.font \in {"bold italic 20px Arial", "bold italic 20px \"Arial\""}

PolygonVisitsPointsInOrder ==
    (last.op = "drawPolygon" /\ ~TooShort(last.vertexes)) =>
        /\ context.log # <<>>
        /\ LET paint == context.log[Len(context.log)]
           IN  /\ paint.op = IF last.isFill THEN "fill" ELSE "stroke"
               /\ StraightEdges(paint.path) = ClosedOutline(last.vertexes[1])

(***************************************************************************)
(* C4.  clear() with a null or omitted colour fills the whole canvas       *)
(* (0, 0, width, height) with the fill colour the context already had, in  *)
(* both variants.                                                          *)
(***************************************************************************)
ClearNullFillsWithCurrentColour ==
    (last.op = "clear" /\ last.color = <<>>) =>
        \E i \in DOMAIN context.log :
            context.log[i] = [op |-> "fillRect", x |-> 0, y |-> 0, w |-> width,
                              h |-> height, style |-> context.fillStyle]

(***************************************************************************)
(* C5.  drawFill and drawStroke paint the shape of the draw call made just *)
(* before them: the path they paint is the one that call built.            *)
(***************************************************************************)
FillStrokeUseLastShape ==
    [][(/\ last'.op \in {"drawFill", "drawStroke"}
        /\ last.op \in ShapeOps /\ context.log # <<>>)
       => /\ \E i \in DOMAIN context.log : context.log[i].op = "beginPath"
          /\ context'.log[Len(context'.log)].path = context.path]_vars

(***************************************************************************)
(* C6.  drawRoundedRect in stroke mode strokes the rounded outline whose   *)
(* origin is moved by 0.5 in x and y when the position fix is on, and is   *)
(* the caller's when it is off; width, height and radius are the caller's. *)
(***************************************************************************)
RoundedRectStrokeOffset ==
    (last.op = "drawRoundedRect" /\ ~last.isFill) =>
        /\ context.log # <<>>
        /\ context.log[Len(context.log)].op = "stroke"
        /\ context.log[Len(context.log)].path =
               RoundedOutline(last.x + (IF usePositionFix THEN Half ELSE 0),
                              last.y + (IF usePositionFix THEN Half ELSE 0),
                              last.width, last.height, last.r)

(***************************************************************************)
(* C7.  drawLine strokes a fresh path of one segment, between the caller's *)
(* end points moved by 0.5 in x and y unless the instance was constructed  *)
(* with usePositionFix = false (absent and null mean true).                *)
(***************************************************************************)
LineIsOneFixedSegment ==
    last.op = "drawLine" =>
        LET from == [op |-> "moveTo", x |-> last.x1 + Shift, y |-> last.y1 + Shift]
            to == [op |-> "lineTo", x |-> last.x2 + Shift, y |-> last.y2 + Shift]
        IN  context.log = << [op |-> "beginPath"], from, to,
                             [op |-> "stroke", style |-> context.strokeStyle,
                              path |-> <<from, to>>] >>

LineFixedByDefaultSeen ==
    /\ last.op = "drawLine"
    /\ options \in {"absent", "null"}
    /\ last.x1 = Px(0) /\ last.x2 = Px(10)
    /\ Len(context.log) = 4
    /\ context.log[2].x = Px(0) + 1 /\ context.log[3].x = Px(10) + 1

(***************************************************************************)
(* C8.  drawRect in stroke mode with the position fix on strokes the       *)
(* rectangle at (x + 0.5, y + 0.5) with the caller's width and height; in  *)
(* fill mode it fills the rectangle at the caller's (x, y, w, h), position *)
(* fix or not.                                                             *)
(***************************************************************************)
RectStrokeFixesOriginOnly ==
    last.op = "drawRect" =>
        /\ last.isFill =>
               context.log = << [op |-> "fillRect", x |-> last.x, y |-> last.y,
                                 w |-> last.width, h |-> last.height,
                                 style |-> context.fillStyle] >>
        /\ (~last.isFill /\ usePositionFix) =>
               context.log = << [op |-> "strokeRect", x |-> last.x + Half,
                                 y |-> last.y + Half,
                                 w |-> last.width, h |-> last.height,
                                 style |-> context.strokeStyle] >>

RectStrokeFixedSeen ==
    /\ last.op = "drawRect" /\ ~last.isFill /\ usePositionFix
    /\ last.x = Px(10)
    /\ context.log # <<>>
    /\ context.log[1].x = Px(10) + 1 /\ context.log[1].w = last.width

(***************************************************************************)
(* C9.  drawPolygon with null, an empty list or a single coordinate calls  *)
(* nothing on the context and leaves the fill colour, the stroke colour    *)
(* and the current path as they were, whatever colour is passed.           *)
(***************************************************************************)
PolygonTooShortIsNoOp ==
    [][(last'.op = "drawPolygon" /\ TooShort(last'.vertexes))
       => context' = [context EXCEPT !.log = <<>>]]_vars

PolygonNoOpSeen ==
    /\ last.op = "drawPolygon"
    /\ last.vertexes = << <<Px(5)>> >>
    /\ last.color = <<"red">>
    /\ context.log = <<>>
    /\ context.path # <<>>
    /\ context.fillStyle = "blue"

(***************************************************************************)
(* C10.  A call with isFill = true passes the caller's coordinates to the  *)
(* context as they are, position fix or not.                               *)
(***************************************************************************)
FillShapesUnfixed ==
    /\ (last.op = "drawRect" /\ last.isFill) =>
           /\ context.log[1].x = last.x
           /\ context.log[1].y = last.y
           /\ context.log[1].w = last.width
           /\ context.log[1].h = last.height
    /\ (last.op = "drawRoundedRect" /\ last.isFill) =>
           context.path = RoundedOutline(last.x, last.y, last.width,
                                         last.height, last.r)
    /\ (last.op = "drawCircle" /\ last.isFill) =>
           /\ context.path[1].x = last.x
           /\ context.path[1].y = last.y
           /\ context.path[1].r = last.r
    /\ (last.op = "drawPolygon" /\ last.isFill /\ ~TooShort(last.vertexes)) =>
           CoordsOf(context.path) = last.vertexes[1]

\* C10 as stated: drawText among them.
FillNeverFixed ==
    /\ FillShapesUnfixed
    /\ (last.op = "drawText" /\ last.isFill) =>
           /\ context.log[1].x = last.x
           /\ context.log[1].y = last.y

\* C10 amended: drawText moves its origin by 0.5 when the position fix is
\* on, in fill mode as in stroke mode; the other four pass the caller's
\* coordinates.
FillFixedOnlyForText ==
    /\ FillShapesUnfixed
    /\ (last.op = "drawText" /\ last.isFill) =>
           /\ context.log[1].x = last.x + (IF usePositionFix THEN Half ELSE 0)
           /\ context.log[1].y = last.y + (IF usePositionFix THEN Half ELSE 0)

FilledCircleUnfixedSeen ==
    /\ last.op = "drawCircle" /\ last.isFill /\ usePositionFix
    /\ last.x = Px(10) /\ last.y = Px(4)
    /\ context.log[Len(context.log)].op = "fill"
    /\ context.path[1].x = Px(10) /\ context.path[1].y = Px(4)

====
